---- MODULE Spec2Model ----
(***************************************************************************)
(* Across bridge automation: the orchestration script (quote, threshold    *)
(* check, execute, poll, history) and its configuration helpers.           *)
(*                                                                         *)
(* Token amounts are BigInt values in the program.  They are carried here  *)
(* as decimal pairs [m, e] standing for m * 10^e smallest units, so that   *)
(* 0.001 ETH is [m |-> 1, e |-> 15] at its real width.                     *)
(***************************************************************************)
EXTENDS Integers, Sequences, FiniteSets, TLC

(***************************************************************************)
(* Bounds of the model.                                                    *)
(***************************************************************************)
\* number of progress events the SDK delivers during one executeQuote call
MaxProgressEvents == 2
MaxFoldEvents == 3
\* number of failing file reads and writes in one run
MaxIoFaults == 1
\* number of entries of the configured operation list
MaxOperations == 2
\* MONITORING.maxPollingAttempts; config.js sets 30, and pollDepositStatus
\* reads it only in the test of its loop
MaxPollingAttempts == 3

(***************************************************************************)
(* JavaScript values.                                                      *)
(***************************************************************************)
\* null / undefined of a string-valued field
NULL == "null"
\* null / undefined of result.depositId
NoDeposit == -1
\* absence of a quote (the default argument quote = null)
NoQuote == [present |-> FALSE]

\* JavaScript truthiness of a deposit id: null, undefined and 0 are falsy
TruthyDeposit(d) == d # NoDeposit /\ d # 0

RECURSIVE Pow10(_)
Pow10(n) == IF n <= 0 THEN 1 ELSE 10 * Pow10(n - 1)

Min(a, b) == IF a <= b THEN a ELSE b

(***************************************************************************)
(* config.js                                                               *)
(***************************************************************************)
\* The entries of BRIDGE_OPERATIONS without their enabled flag, which is the
\* part of the configuration the user edits (see the variable operations).
BRIDGE_OPERATIONS ==
  << [name |-> "ETH Arbitrum to Optimism", tokenSymbol |-> "ETH",
      originChainId |-> 10, destinationChainId |-> 42161,
      inputAmount |-> [m |-> 1, e |-> -3], decimals |-> 18,
      useNativeToken |-> TRUE],
     [name |-> "USDC Ethereum to Polygon", tokenSymbol |-> "USDC",
      originChainId |-> 1, destinationChainId |-> 137,
      inputAmount |-> [m |-> 10, e |-> 0], decimals |-> 6,
      useNativeToken |-> FALSE],
     [name |-> "ETH Base to Ethereum", tokenSymbol |-> "ETH",
      originChainId |-> 8453, destinationChainId |-> 1,
      inputAmount |-> [m |-> 5, e |-> -3], decimals |-> 18,
      useNativeToken |-> TRUE] >>

\* THRESHOLDS.minOutputPercentage = 0.995, as the fraction 995 / 1000
MinOutputNum == 995
MinOutputDen == 1000
THRESHOLDS == [minOutputNum |-> MinOutputNum, minOutputDen |-> MinOutputDen,
               maxFillTimeSeconds |-> 60,
               retry |-> [enabled |-> TRUE, maxAttempts |-> 5,
                          delayMinutes |-> 10]]

MONITORING == [statusPollingInterval |-> 10000,
               maxPollingAttempts |-> MaxPollingAttempts]

Plain == "plain"
Bridged == "bridged"

\* TOKENS: symbol -> (key -> address); the key <<c, Plain>> is the property
\* c and <<c, Bridged>> is the property "c-bridged"
TOKENS ==
  [ETH |->
     ( <<1, Plain>> :> "0xC02aaA39b223FE8D0A0e5C4F27eAD9083C756Cc2"
    @@ <<10, Plain>> :> "0x4200000000000000000000000000000000000006"
    @@ <<42161, Plain>> :> "0x82aF49447D8a07e3bd95BD0d56f35241523fBab1"
    @@ <<8453, Plain>> :> "0x4200000000000000000000000000000000000006"
    @@ <<137, Plain>> :> "0x7ceB23fD6bC0adD59E62ac25578270cFf1b9f619"
    @@ <<324, Plain>> :> "0x5AEa5775959fBC2557Cc8789bC1bf90A239D9a91"
    @@ <<59144, Plain>> :> "0xe5D7C2a44FfDDf6b295A15c148167daaAf5Cf34f"
    @@ <<81457, Plain>> :> "0x4300000000000000000000000000000000000004"
    @@ <<534352, Plain>> :> "0x5300000000000000000000000000000000000004"
    @@ <<34443, Plain>> :> "0x4200000000000000000000000000000000000006"
    @@ <<7777777, Plain>> :> "0x4200000000000000000000000000000000000006" ),
   USDC |->
     ( <<1, Plain>> :> "0xA0b86991c6218b36c1d19D4a2e9Eb0cE3606eB48"
    @@ <<10, Plain>> :> "0x0b2C639c533813f4Aa9D7837CAf62653d097Ff85"
    @@ <<10, Bridged>> :> "0x7F5c764cBc14f9669B88837ca1490cCa17c31607"
    @@ <<42161, Plain>> :> "0xaf88d065e77c8cC2239327C5EDb3A432268e5831"
    @@ <<42161, Bridged>> :> "0xFF970A61A04b1cA14834A43f5dE4533eBDDB5CC8"
    @@ <<8453, Plain>> :> "0x833589fCD6eDb6E08f4c7C32D4f71b54bdA02913"
    @@ <<8453, Bridged>> :> "0xd9aAEc86B65D86f6A7B5B1b0c42FFA531710b6CA"
    @@ <<137, Plain>> :> "0x3c499c542cEF5E3811e1192ce70d8cC03d5c3359"
    @@ <<137, Bridged>> :> "0x2791Bca1f2de4661ED88A30C99A7a9449Aa84174"
    @@ <<324, Plain>> :> "0x3355df6D4c9C3035724Fd0e3914dE96A5a83aaf4"
    @@ <<34443, Plain>> :> "0xd988097fb8612cc24eeC14542bC03424c656005f"
    @@ <<534352, Plain>> :> "0x06eFdBFf2a14a7c8E15944D1F4A48F9F95F663A4" ),
   USDT |->
     ( <<1, Plain>> :> "0xdAC17F958D2ee523a2206206994597C13D831ec7"
    @@ <<10, Plain>> :> "0x94b008aA00579c1307B0EF2c499aD98a8ce58e58"
    @@ <<137, Plain>> :> "0xc2132D05D31c914a87C6611C10748AEb04B58e8F"
    @@ <<42161, Plain>> :> "0xFd086bC7CD5C481DCC9C85ebE478A1C0b69FCbb9" ),
   WBTC |->
     ( <<1, Plain>> :> "0x2260FAC5E5542a773Aa44fBCfeDf7C193bc2C599"
    @@ <<10, Plain>> :> "0x68f180fcCe6836688e9084f035309E29Bf0A2095"
    @@ <<42161, Plain>> :> "0x2f2a2543B76A4166549F7aaB2e75Bef0aefC5B0f"
    @@ <<137, Plain>> :> "0x1BFD67037B42Cf73acF2047067bd4F2C47D9BfD6" )]

\* the chain ids that are keys of CHAINS
CHAINS == {1, 10, 42161, 137, 8453, 324, 534352, 34443}

TOKEN_DECIMALS ==
  ( "ETH" :> 18 @@ "WETH" :> 18 @@ "USDC" :> 6 @@ "USDC.e" :> 6
 @@ "USDT" :> 6 @@ "WBTC" :> 8 @@ "DAI" :> 18 )

(***************************************************************************)
(* helper.js                                                               *)
(***************************************************************************)
Threw(msg) == [threw |-> TRUE, error |-> msg]
Returned(v) == [threw |-> FALSE, value |-> v]

NotSupportedError == "Token not supported on chain"

\* mutant: an absent pair yields the undefined property in the place of an
\* error
getTokenAddressLenient(tokens, tokenSymbol, chainId, useBridged) ==
  IF /\ useBridged
     /\ tokenSymbol \in {"USDC"}
     /\ tokenSymbol \in DOMAIN tokens
     /\ <<chainId, Bridged>> \in DOMAIN tokens[tokenSymbol]
  THEN Returned(tokens[tokenSymbol][<<chainId, Bridged>>])
  ELSE IF /\ tokenSymbol \in DOMAIN tokens
          /\ <<chainId, Plain>> \in DOMAIN tokens[tokenSymbol]
       THEN Returned(tokens[tokenSymbol][<<chainId, Plain>>])
       ELSE Returned(NULL)

\* getTokenAddress reading a registry tokens in the place of TOKENS
getTokenAddressIn(tokens, tokenSymbol, chainId, useBridged) ==
  IF /\ useBridged
     /\ tokenSymbol \in {"USDC"}
     /\ tokenSymbol \in DOMAIN tokens
     /\ <<chainId, Bridged>> \in DOMAIN tokens[tokenSymbol]
  THEN Returned(tokens[tokenSymbol][<<chainId, Bridged>>])
  ELSE IF /\ tokenSymbol \in DOMAIN tokens
          /\ <<chainId, Plain>> \in DOMAIN tokens[tokenSymbol]
       THEN Returned(tokens[tokenSymbol][<<chainId, Plain>>])
       ELSE Threw(NotSupportedError)

getTokenAddress(tokenSymbol, chainId, useBridged) ==
  getTokenAddressIn(TOKENS, tokenSymbol, chainId, useBridged)

getTokenDecimals(tokenSymbol) ==
  IF tokenSymbol \in DOMAIN TOKEN_DECIMALS
  THEN TOKEN_DECIMALS[tokenSymbol]
  ELSE CASE tokenSymbol \in {"ETH", "WETH"} -> 18
         [] tokenSymbol \in {"USDC", "USDC.e", "USDT"} -> 6
         [] tokenSymbol = "WBTC" -> 8
         [] OTHER -> 18

\* the symbols with an entry for the chain, as a set (the code builds the
\* list in the order of the keys of TOKENS)
getSupportedTokensForChainIn(tokens, chainId) ==
  { tokenSymbol \in DOMAIN tokens :
      <<chainId, Plain>> \in DOMAIN tokens[tokenSymbol] }

isBridgeSupportedForTokenIn(tokens, originChainId, destinationChainId, tokenSymbol) ==
  ~ \/ tokenSymbol \notin DOMAIN tokens
    \/ <<originChainId, Plain>> \notin DOMAIN tokens[tokenSymbol]
    \/ <<destinationChainId, Plain>> \notin DOMAIN tokens[tokenSymbol]

\* Object.keys lists integer keys in ascending order
RECURSIVE Ascending(_)
Ascending(S) ==
  IF S = {} THEN << >>
  ELSE LET least == CHOOSE x \in S : \A y \in S : x <= y
       IN  << least >> \o Ascending(S \ {least})

\* the inner loop of findAvailableRoutes for one origin chain
RECURSIVE RoutesFrom(_, _, _, _)
RoutesFrom(tokenSymbol, originChain, supportedChains, j) ==
  IF j > Len(supportedChains) THEN << >>
  ELSE (IF originChain # supportedChains[j]
        THEN << [originChainId |-> originChain,
                 destinationChainId |-> supportedChains[j],
                 tokenSymbol |-> tokenSymbol] >>
        ELSE << >>)
       \o RoutesFrom(tokenSymbol, originChain, supportedChains, j + 1)

\* the outer loop of findAvailableRoutes
RECURSIVE RoutesOver(_, _, _)
RoutesOver(tokenSymbol, supportedChains, i) ==
  IF i > Len(supportedChains) THEN << >>
  ELSE RoutesFrom(tokenSymbol, supportedChains[i], supportedChains, 1)
       \o RoutesOver(tokenSymbol, supportedChains, i + 1)

\* mutant: the keys with a dash are not filtered out, and parseInt maps
\* "10-bridged" to 10
findAvailableRoutesUnfiltered(tokens, tokenSymbol) ==
  IF tokenSymbol \notin DOMAIN tokens THEN << >>
  ELSE RoutesOver(tokenSymbol,
                  Ascending({ key[1] : key \in DOMAIN tokens[tokenSymbol] }), 1)

findAvailableRoutesIn(tokens, tokenSymbol) ==
  IF tokenSymbol \notin DOMAIN tokens THEN << >>
  ELSE LET supportedChains ==
             Ascending({ key[1] : key \in
                           { k \in DOMAIN tokens[tokenSymbol] : k[2] = Plain } })
       IN  RoutesOver(tokenSymbol, supportedChains, 1)

\* mutant: the native flag follows the symbol alone
createRouteObjectAlwaysNative(tokens, tokenSymbol, originChainId, destinationChainId, useNativeToken) ==
  LET inputToken == getTokenAddressIn(tokens, tokenSymbol, originChainId, FALSE)
      outputToken == getTokenAddressIn(tokens, tokenSymbol, destinationChainId, FALSE)
  IN  IF inputToken.threw THEN inputToken
      ELSE IF outputToken.threw THEN outputToken
      ELSE Returned([originChainId |-> originChainId,
                     destinationChainId |-> destinationChainId,
                     inputToken |-> inputToken.value,
                     outputToken |-> outputToken.value,
                     isNative |-> (tokenSymbol = "ETH")])

createRouteObjectIn(tokens, tokenSymbol, originChainId, destinationChainId, useNativeToken) ==
  LET inputToken == getTokenAddressIn(tokens, tokenSymbol, originChainId, FALSE)
      outputToken == getTokenAddressIn(tokens, tokenSymbol, destinationChainId, FALSE)
  IN  IF inputToken.threw THEN inputToken
      ELSE IF outputToken.threw THEN outputToken
      ELSE Returned([originChainId |-> originChainId,
                     destinationChainId |-> destinationChainId,
                     inputToken |-> inputToken.value,
                     outputToken |-> outputToken.value,
                     isNative |-> (tokenSymbol = "ETH" /\ useNativeToken)])

createRouteObject(tokenSymbol, originChainId, destinationChainId, useNativeToken) ==
  createRouteObjectIn(TOKENS, tokenSymbol, originChainId, destinationChainId,
                      useNativeToken)

(***************************************************************************)
(* viem: parseUnits and formatUnits on decimal pairs                        *)
(***************************************************************************)
\* parseUnits(value.toString(), decimals): the value times 10^decimals as an
\* integer; digits beyond the token's decimals are rounded half up
parseUnits(value, decimals) ==
  IF value.e + decimals >= 0
  THEN [m |-> value.m, e |-> value.e + decimals]
  ELSE LET k == 0 - (value.e + decimals)
       IN  [m |-> (value.m + 5 * Pow10(k - 1)) \div Pow10(k), e |-> 0]

\* the canonical decimal numeral of a value: no trailing zero in the mantissa
RECURSIVE Canonical(_)
Canonical(a) ==
  IF a.m = 0 THEN [m |-> 0, e |-> 0]
  ELSE IF a.m % 10 = 0 THEN Canonical([m |-> a.m \div 10, e |-> a.e + 1])
  ELSE a

\* formatUnits(value, decimals): the decimal numeral of value / 10^decimals
formatUnits(value, decimals) ==
  Canonical([m |-> value.m, e |-> value.e - decimals])

\* the integer a stands for, divided by 10^k (k at most both exponents)
Scaled(a, k) == a.m * Pow10(a.e - k)

(***************************************************************************)
(* across-bridge script: threshold evaluator                               *)
(***************************************************************************)
\* operation.decimals || getTokenDecimals(operation.tokenSymbol)
DecimalsOf(operation) ==
  IF operation.decimals # 0 THEN operation.decimals
  ELSE getTokenDecimals(operation.tokenSymbol)

\* mutant: the output comparison turned round
RatioAtMost(output, input, num, den) ==
  LET k == Min(output.e, input.e)
  IN  IF input.m = 0 THEN output.m > 0
      ELSE Scaled(output, k) * den <= num * Scaled(input, k)

\* mutant: the output comparison made strict
RatioMoreThan(output, input, num, den) ==
  LET k == Min(output.e, input.e)
  IN  IF input.m = 0 THEN output.m > 0
      ELSE Scaled(output, k) * den > num * Scaled(input, k)

\* Number(output) / Number(input) >= num / den in JavaScript: x / 0 is
\* Infinity for x > 0 and 0 / 0 is NaN, which compares false
RatioAtLeast(output, input, num, den) ==
  LET k == Min(output.e, input.e)
  IN  IF input.m = 0 THEN output.m > 0
      ELSE Scaled(output, k) * den >= num * Scaled(input, k)

\* mutant: the fill-time check left out of the verdict
quoteIgnoringFillTime(quote, operation, thresholds) ==
  RatioAtLeast(quote.deposit.outputAmount,
               parseUnits(operation.inputAmount, DecimalsOf(operation)),
               thresholds.minOutputNum, thresholds.minOutputDen)

quoteExceedsThresholdsWith(quote, operation, thresholds) ==
  LET parsedInputAmount == parseUnits(operation.inputAmount, DecimalsOf(operation))
      meetsOutputThreshold ==
        RatioAtLeast(quote.deposit.outputAmount, parsedInputAmount,
                     thresholds.minOutputNum, thresholds.minOutputDen)
      meetsFillTimeThreshold ==
        quote.estimatedFillTimeSec <= thresholds.maxFillTimeSeconds
  IN  meetsOutputThreshold /\ meetsFillTimeThreshold

quoteExceedsThresholds(quote, operation) ==
  quoteExceedsThresholdsWith(quote, operation, THRESHOLDS)

(***************************************************************************)
(* across-bridge script: history recorder                                  *)
(***************************************************************************)
\* The history file.  kind is "missing" (no such file), "garbage" (text that
\* JSON.parse rejects), "nonlist" (JSON that is not an array: an object, a
\* number, a string, null) or "list" (a JSON array, held in records).
MissingFile == [kind |-> "missing", records |-> << >>]
GarbageFile == [kind |-> "garbage", records |-> << >>]
NonListFile == [kind |-> "nonlist", records |-> << >>]
ListFile(recs) == [kind |-> "list", records |-> recs]

NoAmount == [m |-> -1, e |-> 0]
PushTypeError == "history.push is not a function"

safeOperation(operation) ==
  [name |-> operation.name, tokenSymbol |-> operation.tokenSymbol,
   originChainId |-> operation.originChainId,
   destinationChainId |-> operation.destinationChainId,
   inputAmount |-> Canonical(operation.inputAmount)]

\* value ? formatUnits(value, decimals) : "0"
FeeText(value, decimals) ==
  IF value.m > 0 THEN formatUnits(value, decimals) ELSE [m |-> 0, e |-> 0]

safeResult(operation, result, quote) ==
  LET withQuote == quote.present /\ quote.deposit.outputAmount.m > 0
      decimals == DecimalsOf(operation)
  IN  [success |-> result.success,
       depositId |-> IF TruthyDeposit(result.depositId)
                     THEN result.depositId ELSE NoDeposit,
       originTxHash |-> result.originTxHash,
       destinationTxHash |-> result.destinationTxHash,
       error |-> result.error,
       outputAmount |-> IF withQuote
                        THEN formatUnits(quote.deposit.outputAmount, decimals)
                        ELSE NoAmount,
       relayFee |-> IF withQuote
                    THEN FeeText(quote.fees.totalRelayFee, decimals)
                    ELSE NoAmount,
       lpFee |-> IF withQuote
                 THEN FeeText(quote.fees.lpFee, decimals)
                 ELSE NoAmount]

\* JSON.parse(fs.readFileSync(historyFile)) inside the try, history = []
\* otherwise; the value is a file of kind "list" or "nonlist"
ReadHistory(f, readOk) ==
  IF f.kind = "missing" \/ ~readOk \/ f.kind = "garbage"
  THEN ListFile(<< >>)
  ELSE f

\* One call of saveTransactionToHistory on the file f; readOk and writeOk
\* say whether fs.readFileSync and fs.writeFileSync succeed.  The value
\* gives the file afterwards, whether a record was written, and whether the
\* call threw.
saveTransactionToHistory(save, f, readOk, writeOk, operation, result, quote) ==
  IF ~save
  THEN [threw |-> FALSE, error |-> NULL, file |-> f, wrote |-> FALSE]
  ELSE LET history == ReadHistory(f, readOk)
       IN  IF history.kind # "list"
           THEN [threw |-> TRUE, error |-> PushTypeError, file |-> f,
                 wrote |-> FALSE]
           ELSE IF writeOk
           THEN [threw |-> FALSE, error |-> NULL, wrote |-> TRUE,
                 file |-> ListFile(Append(history.records,
                            [operation |-> safeOperation(operation),
                             result |-> safeResult(operation, result, quote)]))]
           ELSE [threw |-> FALSE, error |-> NULL, file |-> f, wrote |-> FALSE]

(***************************************************************************)
(* across-bridge script: status poller, response classification            *)
(***************************************************************************)
\* String.prototype.toLowerCase on the status strings the model uses
toLowerCase(s) ==
  CASE s \in {"filled", "Filled", "FILLED"} -> "filled"
    [] s \in {"success", "Success", "SUCCESS"} -> "success"
    [] s \in {"fill", "Fill", "FILL"} -> "fill"
    [] s \in {"failed", "Failed", "FAILED"} -> "failed"
    [] s \in {"pending", "Pending", "PENDING"} -> "pending"
    [] OTHER -> s

\* A response of the status endpoint: a body with a status string, or a
\* failure inside the try block of the loop: "requestFailed" is axios.get
\* rejecting (network error, non-2xx), "noStatusField" is a body without a
\* status string, where status.status.toLowerCase() raises.
OkResponse(s) == [kind |-> "ok", status |-> s]
ErrorResponse(k) == [kind |-> k, status |-> NULL]
NoResponse == [kind |-> "none", status |-> NULL]

\* mutant: the branch added for "fill" is missing
PollVerdictWithoutFill(response) ==
  IF response.kind # "ok" THEN "retry"
  ELSE LET statusLower == toLowerCase(response.status)
       IN  IF statusLower = "filled" \/ statusLower = "success" THEN "true"
           ELSE IF statusLower = "failed" THEN "false"
           ELSE "retry"

\* mutant: a failed request ends the polling instead of being retried
PollVerdictErrorFails(response) ==
  IF response.kind # "ok" THEN "false"
  ELSE LET statusLower == toLowerCase(response.status)
       IN  IF statusLower = "filled" \/ statusLower = "success" THEN "true"
           ELSE IF statusLower = "failed" THEN "false"
           ELSE IF statusLower = "fill" \/ statusLower = "filled" THEN "true"
           ELSE "retry"

\* The if-chain of the loop body: "true" and "false" are the immediate
\* returns, "retry" is the sleep before the next attempt.
\* mutant: every status but "failed" counts as a completed transfer
PollVerdictLenient(response) ==
  IF response.kind # "ok" THEN "retry"
  ELSE LET statusLower == toLowerCase(response.status)
       IN  IF statusLower = "failed" THEN "false" ELSE "true"

PollVerdict(response) ==
  IF response.kind # "ok" THEN "retry"
  ELSE LET statusLower == toLowerCase(response.status)
       IN  IF statusLower = "filled" \/ statusLower = "success" THEN "true"
           ELSE IF statusLower = "failed" THEN "false"
           ELSE IF statusLower = "fill" \/ statusLower = "filled" THEN "true"
           ELSE "retry"

(***************************************************************************)
(* The run of the script as a state machine.                               *)
(***************************************************************************)
VARIABLES
  operations,   \* BRIDGE_OPERATIONS with each entry's enabled flag
  autoExecute,  \* OPTIONS.autoExecute
  saveHistory,  \* OPTIONS.saveHistory
  privateKey,   \* whether process.env.PRIVATE_KEY is set
  file,         \* the history file on disk
  file0,        \* history variable: the history file at startup
  pc,           \* where the single thread of control is suspended
  idx,          \* index of the current operation in enabledOperations
  quote,        \* the quote of the current operation
  result,       \* the result object of executeQuote
  attempts,     \* pollDepositStatus: attempts
  events,       \* progress events delivered by the current execute call
  faults,       \* file I/O failures so far
  log,          \* history variable: what the current operation did
  summary,      \* history variable: what each operation did, in short
  exitCode,     \* exit status of the process, -1 while it runs
  evaluation,   \* a call of the threshold evaluator on its own: its
                \* arguments and, once made, its verdicts
  lookup,       \* calls of the helpers of helper.js on their own: their
                \* arguments and, once made, their values
  fold          \* the onProgress callback on its own: the events of one
                \* execute call and the result object as they are delivered

vars == << operations, autoExecute, saveHistory, privateKey, file, file0, pc, idx,
           quote, result, attempts, events, faults, log, summary,
           exitCode, evaluation, lookup, fold >>

\* what no step of a run changes
config == << operations, autoExecute, saveHistory, privateKey, file0,
             evaluation, lookup, fold >>

NoEvaluation == [made |-> FALSE]
NoLookup == [made |-> FALSE]
NoFold == [at |-> 0, events |-> << >>]

InitialResult ==
  [success |-> FALSE, depositId |-> NoDeposit, originTxHash |-> NULL,
   destinationTxHash |-> NULL, error |-> NULL]

\* the object literals { success: false, error: message }
FailedResult(message) == [InitialResult EXCEPT !.error = message]

\* no route has been built for the current operation
NoRoute ==
  [originChainId |-> 0, destinationChainId |-> 0, inputToken |-> NULL,
   outputToken |-> NULL, isNative |-> FALSE]

InitialLog ==
  [op |-> 0, quotes |-> 0, executes |-> 0, polls |-> 0, sleeps |-> 0, records |-> 0,
   saves |-> 0, accepted |-> "none", captured |-> NoDeposit,
   capturedAny |-> FALSE, execEnd |-> "none", execSuccess |-> FALSE,
   pollChain |-> 0, pollDeposit |-> NoDeposit, pollRet |-> "none",
   lastResponse |-> NoResponse, quoted |-> NoQuote, finalSuccess |-> FALSE,
   saveThrew |-> FALSE, execError |-> NULL, caught |-> NULL, ret |-> "none",
   route |-> NoRoute, atPoll |-> InitialResult]

InitialSummary ==
  [quotes |-> 0, executes |-> 0, polled |-> FALSE, records |-> 0,
   ret |-> "none"]

Summary(lg) ==
  [quotes |-> lg.quotes, executes |-> lg.executes, polled |-> lg.polls > 0,
   records |-> lg.records, ret |-> lg.ret]

\* mutant: the filter on the enabled flag left out
RECURSIVE EveryFrom(_, _)
EveryFrom(ops, i) ==
  IF i > Len(ops) THEN << >> ELSE << i >> \o EveryFrom(ops, i + 1)

\* positions in operations of the entries of enabledOperations
RECURSIVE EnabledFrom(_, _)
EnabledFrom(ops, i) ==
  IF i > Len(ops) THEN << >>
  ELSE IF ops[i].enabled THEN << i >> \o EnabledFrom(ops, i + 1)
  ELSE EnabledFrom(ops, i + 1)

enabledOperations == EnabledFrom(operations, 1)

\* mutant: the list walked from its end
curBackwards == enabledOperations[Len(enabledOperations) - idx + 1]

cur == enabledOperations[idx]
operation == operations[cur]

(***************************************************************************)
(* Inputs from the environment.                                            *)
(***************************************************************************)
\* deposit ids the SDK reports; 0 is the first deposit of a spoke pool
DepositIds == {0, 7}
OriginTxHash == "0xorigin"
FillTxHash == "0xfill"

\* the quote of the SDK for an operation paying out permille / 1000 of the
\* input; the difference is the relay fee and the LP fee is zero
QuoteFor(op, permille, fillTime) ==
  LET parsedAmount == parseUnits(op.inputAmount, DecimalsOf(op))
  IN  [present |-> TRUE,
       deposit |-> [inputAmount |-> parsedAmount,
                    outputAmount |-> [m |-> permille * parsedAmount.m,
                                      e |-> parsedAmount.e - 3]],
       estimatedFillTimeSec |-> fillTime,
       isAmountTooLow |-> FALSE,
       fees |-> [totalRelayFee |-> [m |-> (1000 - permille) * parsedAmount.m,
                                    e |-> parsedAmount.e - 3],
                 lpFee |-> [m |-> 0, e |-> 0]]]

Quotes(op) ==
  { QuoteFor(op, 995, 60), QuoteFor(op, 994, 60), QuoteFor(op, 995, 61) }

ProgressEvents ==
  [step : {"approve", "fill"}, status : {"pending"}, depositId : {NoDeposit},
   txHash : {NULL}]
  \cup [step : {"deposit"}, status : {"pending"}, depositId : {NoDeposit},
        txHash : {NULL}]
  \cup [step : {"approve"}, status : {"txSuccess"}, depositId : {NoDeposit},
        txHash : {"0xapprove"}]
  \cup [step : {"deposit"}, status : {"txSuccess"}, depositId : DepositIds,
        txHash : {OriginTxHash}]
  \cup [step : {"fill"}, status : {"txSuccess"}, depositId : {NoDeposit},
        txHash : {FillTxHash, NULL}]

Statuses == {"filled", "Success", "FILL", "failed", "Failed", "pending"}

PollResponses ==
  { OkResponse(s) : s \in Statuses }
  \cup { ErrorResponse(k) : k \in {"requestFailed", "noStatusField"} }

\* outcomes <<readOk, writeOk>> of the file system calls of one recorder call
IoChoices(f, n) ==
  { << TRUE, TRUE >> }
  \cup (IF n < MaxIoFaults /\ saveHistory /\ f.kind # "missing"
        THEN { << FALSE, TRUE >> } ELSE {})
  \cup (IF n < MaxIoFaults /\ saveHistory
        THEN { << TRUE, FALSE >> } ELSE {})

FaultsAfter(io, n) == IF io = << TRUE, TRUE >> THEN n ELSE n + 1

BoolText(b) == IF b THEN "true" ELSE "false"

(***************************************************************************)
(* main and executeBridgeOperation                                         *)
(***************************************************************************)
\* executeBridgeOperation has returned: the for loop of main goes on
Advance(f, lg, n) ==
  /\ file' = f
  /\ log' = lg
  /\ summary' = [summary EXCEPT ![cur] = Summary(lg)]
  /\ faults' = n
  /\ pc' = "loop"
  /\ idx' = idx + 1
  /\ quote' = NoQuote
  /\ result' = InitialResult
  /\ attempts' = 0
  /\ events' = 0
  /\ UNCHANGED << config, exitCode >>

\* executeBridgeOperation has thrown: the catch of main calls process.exit(1)
Fatal(lg, n) ==
  /\ log' = lg
  /\ summary' = [summary EXCEPT ![cur] = Summary(lg)]
  /\ faults' = n
  /\ pc' = "exited"
  /\ exitCode' = 1
  /\ quote' = NoQuote
  /\ result' = InitialResult
  /\ attempts' = 0
  /\ events' = 0
  /\ UNCHANGED << config, file, idx >>

Recorded(lg, s) ==
  [lg EXCEPT !.saves = @ + 1, !.records = @ + (IF s.wrote THEN 1 ELSE 0),
             !.saveThrew = @ \/ s.threw]

\* mutant: the catch block returns without recording the failure
CatchWithoutHistory(message, lg, n) ==
  Advance(file, [lg EXCEPT !.caught = message, !.ret = "false"], n)

\* the catch block of executeBridgeOperation
CatchAtBoundary(message, lg, n) ==
  \E io \in IoChoices(file, n) :
    LET s == saveTransactionToHistory(saveHistory, file, io[1], io[2],
                                      operation, FailedResult(message), NoQuote)
    IN  IF s.threw
        THEN Fatal([Recorded(lg, s) EXCEPT !.caught = message,
                                           !.ret = "threw"],
                   FaultsAfter(io, n))
        ELSE Advance(s.file, [Recorded(lg, s) EXCEPT !.caught = message,
                                                     !.ret = "false"],
                     FaultsAfter(io, n))

\* saveTransactionToHistory(operation, res, q) followed by the return of
\* res.success, inside the try block of executeBridgeOperation
RecordAndReturn(res, q, lg) ==
  \E io \in IoChoices(file, faults) :
    LET s == saveTransactionToHistory(saveHistory, file, io[1], io[2],
                                      operation, res, q)
        lgs == [Recorded(lg, s) EXCEPT !.finalSuccess = res.success]
    IN  IF s.threw
        THEN CatchAtBoundary(s.error, lgs, FaultsAfter(io, faults))
        ELSE Advance(s.file, [lgs EXCEPT !.ret = BoolText(res.success)],
                     FaultsAfter(io, faults))

\* mutant: the script without the test of the private key
StartupWithoutKeyCheck ==
  /\ pc = "start"
  /\ IF Len(enabledOperations) = 0
     THEN pc' = "done" /\ exitCode' = 0 /\ idx' = idx
     ELSE pc' = "loop" /\ exitCode' = exitCode /\ idx' = 1
  /\ UNCHANGED << config, file, quote, result, attempts, events, faults, log,
                  summary >>

\* top of the script and of main, up to the for loop
Startup ==
  /\ pc = "start"
  /\ IF ~privateKey
     THEN pc' = "exited" /\ exitCode' = 1 /\ idx' = idx
     ELSE IF Len(enabledOperations) = 0
     THEN pc' = "done" /\ exitCode' = 0 /\ idx' = idx
     ELSE pc' = "loop" /\ exitCode' = exitCode /\ idx' = 1
  /\ UNCHANGED << config, file, quote, result, attempts, events, faults, log,
                  summary >>

\* executeBridgeOperation and getQuote up to the await of client.getQuote
BeginOperation ==
  /\ pc = "loop"
  /\ idx <= Len(enabledOperations)
  /\ LET route == createRouteObject(operation.tokenSymbol,
                                    operation.originChainId,
                                    operation.destinationChainId,
                                    operation.useNativeToken)
     IN  IF route.threw
         THEN CatchAtBoundary(route.error, [InitialLog EXCEPT !.op = cur],
                              faults)
         ELSE /\ pc' = "quoting"
              /\ log' = [InitialLog EXCEPT !.op = cur, !.quotes = 1,
                                           !.route = route.value]
              /\ summary' = [summary EXCEPT ![cur].quotes = 1]
              /\ UNCHANGED << config, file, idx, quote, result, attempts,
                              events, faults, exitCode >>

\* the for loop of main is over: main returns and the process ends
Finish ==
  /\ pc = "loop"
  /\ idx > Len(enabledOperations)
  /\ pc' = "done"
  /\ exitCode' = 0
  /\ UNCHANGED << config, file, idx, quote, result, attempts, events, faults,
                  log, summary >>

QuoteError == "SDK quote error"

\* mutant: a failed quote ends the operation without a history record
QuoteThrowsUnrecorded ==
  /\ pc = "quoting"
  /\ CatchWithoutHistory(QuoteError, log, faults)

\* client.getQuote rejects
QuoteThrows ==
  /\ pc = "quoting"
  /\ CatchAtBoundary(QuoteError, log, faults)

\* mutant: the test of OPTIONS.autoExecute left out
QuoteReturnsIgnoringAutoExecute(q) ==
  /\ pc = "quoting"
  /\ IF ~quoteExceedsThresholds(q, operation)
     THEN RecordAndReturn(FailedResult("Quote did not meet thresholds"), q,
                          [log EXCEPT !.accepted = "no", !.quoted = q])
     ELSE IF operation.originChainId \notin CHAINS
     THEN RecordAndReturn(FailedResult("Cannot read properties of undefined"),
                          q, [log EXCEPT !.accepted = "yes", !.quoted = q])
     ELSE /\ pc' = "executing"
          /\ quote' = q
          /\ result' = InitialResult
          /\ events' = 0
          /\ log' = [log EXCEPT !.accepted = "yes", !.quoted = q,
                                !.executes = @ + 1]
          /\ summary' = [summary EXCEPT ![cur].executes = @ + 1]
          /\ UNCHANGED << config, file, idx, attempts, faults, exitCode >>

\* mutant: a rejected quote is asked for again, as THRESHOLDS.retry describes
QuoteReturnsWithRetry(q) ==
  /\ pc = "quoting"
  /\ IF ~quoteExceedsThresholds(q, operation)
     THEN IF THRESHOLDS.retry.enabled
             /\ log.quotes < THRESHOLDS.retry.maxAttempts
          THEN /\ log' = [log EXCEPT !.quotes = @ + 1]
               /\ summary' = [summary EXCEPT ![cur].quotes = @ + 1]
               /\ UNCHANGED << config, file, pc, idx, quote, result, attempts,
                               events, faults, exitCode >>
          ELSE RecordAndReturn(FailedResult("Quote did not meet thresholds"),
                               q, [log EXCEPT !.accepted = "no", !.quoted = q])
     ELSE IF ~autoExecute
     THEN RecordAndReturn(FailedResult("Auto-execute disabled"), q,
                          [log EXCEPT !.accepted = "yes", !.quoted = q])
     ELSE IF operation.originChainId \notin CHAINS
     THEN RecordAndReturn(FailedResult("Cannot read properties of undefined"),
                          q, [log EXCEPT !.accepted = "yes", !.quoted = q])
     ELSE /\ pc' = "executing"
          /\ quote' = q
          /\ result' = InitialResult
          /\ events' = 0
          /\ log' = [log EXCEPT !.accepted = "yes", !.quoted = q,
                                !.executes = @ + 1]
          /\ summary' = [summary EXCEPT ![cur].executes = @ + 1]
          /\ UNCHANGED << config, file, idx, attempts, faults, exitCode >>

\* client.getQuote resolves with q: threshold check, auto-execute check and
\* executeQuote up to the await of client.executeQuote
QuoteReturns(q) ==
  /\ pc = "quoting"
  /\ IF ~quoteExceedsThresholds(q, operation)
     THEN RecordAndReturn(FailedResult("Quote did not meet thresholds"), q,
                          [log EXCEPT !.accepted = "no", !.quoted = q])
     ELSE IF ~autoExecute
     THEN RecordAndReturn(FailedResult("Auto-execute disabled"), q,
                          [log EXCEPT !.accepted = "yes", !.quoted = q])
     ELSE IF operation.originChainId \notin CHAINS
     THEN RecordAndReturn(FailedResult("Cannot read properties of undefined"),
                          q, [log EXCEPT !.accepted = "yes", !.quoted = q])
     ELSE /\ pc' = "executing"
          /\ quote' = q
          /\ result' = InitialResult
          /\ events' = 0
          /\ log' = [log EXCEPT !.accepted = "yes", !.quoted = q,
                                !.executes = @ + 1]
          /\ summary' = [summary EXCEPT ![cur].executes = @ + 1]
          /\ UNCHANGED << config, file, idx, attempts, faults, exitCode >>

\* mutant: a fill is noted by its transaction hash alone
onProgressWithoutSuccess(res, progress) ==
  IF progress.step = "deposit" /\ progress.status = "txSuccess"
  THEN [res EXCEPT !.depositId = progress.depositId,
                   !.originTxHash = progress.txHash]
  ELSE IF progress.step = "fill" /\ progress.status = "txSuccess"
  THEN [res EXCEPT !.destinationTxHash =
                      IF progress.txHash # NULL THEN progress.txHash ELSE @]
  ELSE res

\* mutant: the approval's transaction hash is kept as the origin hash
onProgressKeepingApproval(res, progress) ==
  IF progress.step = "approve" /\ progress.status = "txSuccess"
  THEN [res EXCEPT !.originTxHash = progress.txHash]
  ELSE IF progress.step = "deposit" /\ progress.status = "txSuccess"
  THEN [res EXCEPT !.depositId = progress.depositId,
                   !.originTxHash = progress.txHash]
  ELSE IF progress.step = "fill" /\ progress.status = "txSuccess"
  THEN [res EXCEPT !.success = TRUE,
                   !.destinationTxHash =
                      IF progress.txHash # NULL THEN progress.txHash ELSE @]
  ELSE res

\* mutant: the deposit step keeps the id and drops the transaction hash
onProgressWithoutHash(res, progress) ==
  IF progress.step = "deposit" /\ progress.status = "txSuccess"
  THEN [res EXCEPT !.depositId = progress.depositId]
  ELSE IF progress.step = "fill" /\ progress.status = "txSuccess"
  THEN [res EXCEPT !.success = TRUE,
                   !.destinationTxHash =
                      IF progress.txHash # NULL THEN progress.txHash ELSE @]
  ELSE res

\* the onProgress callback of executeQuote, as a function of the result
onProgress(res, progress) ==
  IF progress.step = "deposit" /\ progress.status = "txSuccess"
  THEN [res EXCEPT !.depositId = progress.depositId,
                   !.originTxHash = progress.txHash]
  ELSE IF progress.step = "fill" /\ progress.status = "txSuccess"
  THEN [res EXCEPT !.success = TRUE,
                   !.destinationTxHash =
                      IF progress.txHash # NULL THEN progress.txHash ELSE @]
  ELSE res

\* the SDK delivers a progress event while client.executeQuote is pending
Progress(progress) ==
  /\ pc = "executing"
  /\ events < MaxProgressEvents
  /\ events' = events + 1
  /\ result' = onProgress(result, progress)
  /\ log' = IF progress.step = "deposit" /\ progress.status = "txSuccess"
            THEN [log EXCEPT !.captured = progress.depositId,
                             !.capturedAny = TRUE]
            ELSE log
  /\ UNCHANGED << config, file, pc, idx, quote, attempts, faults, summary,
                  exitCode >>

\* mutant: the loop test is off by one
PollLoopOffByOne(res, lg, att) ==
  IF att <= MONITORING.maxPollingAttempts
  THEN /\ pc' = "polling"
       /\ attempts' = att + 1
       /\ result' = res
       /\ events' = 0
       /\ log' = [lg EXCEPT !.polls = @ + 1, !.lastResponse = NoResponse]
       /\ UNCHANGED << config, file, idx, quote, faults, summary, exitCode >>
  ELSE RecordAndReturn(res, quote, [lg EXCEPT !.pollRet = "false"])

\* the while test of pollDepositStatus with attempts = att: either the next
\* request is issued or the loop ends and completed (false) is returned
\* mutant: a used-up polling budget is recorded as an error of the transfer
PollLoopMarksTimeout(res, lg, att) ==
  IF att < MONITORING.maxPollingAttempts
  THEN /\ pc' = "polling"
       /\ attempts' = att + 1
       /\ result' = res
       /\ events' = 0
       /\ log' = [lg EXCEPT !.polls = @ + 1, !.lastResponse = NoResponse]
       /\ UNCHANGED << config, file, idx, quote, faults, summary, exitCode >>
  ELSE RecordAndReturn([res EXCEPT !.error = "Polling timed out"], quote,
                       [lg EXCEPT !.pollRet = "false"])

PollLoop(res, lg, att) ==
  IF att < MONITORING.maxPollingAttempts
  THEN /\ pc' = "polling"
       /\ attempts' = att + 1
       /\ result' = res
       /\ events' = 0
       /\ log' = [lg EXCEPT !.polls = @ + 1, !.lastResponse = NoResponse]
       /\ UNCHANGED << config, file, idx, quote, faults, summary, exitCode >>
  ELSE RecordAndReturn(res, quote, [lg EXCEPT !.pollRet = "false"])

\* executeBridgeOperation after executeQuote returned res
AfterExecute(res, lg) ==
  IF TruthyDeposit(res.depositId) /\ ~res.success
  THEN PollLoop(res, [lg EXCEPT !.pollChain = operation.originChainId,
                                !.pollDeposit = res.depositId,
                                !.atPoll = res], 0)
  ELSE RecordAndReturn(res, quote, lg)

\* client.executeQuote resolves
ExecuteReturns ==
  /\ pc = "executing"
  /\ AfterExecute(result, [log EXCEPT !.execEnd = "returned",
                                           !.execSuccess = result.success,
                                           !.execError = result.error])

ExecuteError == "SDK execute error"

\* mutant: executeQuote without its try / catch, the rejection goes on to
\* the caller
ExecuteEscapes ==
  /\ pc = "executing"
  /\ CatchAtBoundary(ExecuteError,
                     [log EXCEPT !.execEnd = "threw",
                                 !.execSuccess = result.success], faults)

\* client.executeQuote rejects: the catch of executeQuote builds the result
ExecuteThrows ==
  /\ pc = "executing"
  /\ AfterExecute(FailedResult(ExecuteError),
                  [log EXCEPT !.execEnd = "threw",
                              !.execSuccess = result.success,
                              !.execError = ExecuteError])

\* axios.get settles with response: one body of the while loop
PollResponse(response) ==
  /\ pc = "polling"
  /\ LET verdict == PollVerdict(response)
     IN  IF verdict = "true"
         THEN RecordAndReturn([result EXCEPT !.success = TRUE], quote,
                              [log EXCEPT !.pollRet = "true",
                                          !.lastResponse = response])
         ELSE IF verdict = "false"
         THEN RecordAndReturn(result, quote,
                              [log EXCEPT !.pollRet = "false",
                                          !.lastResponse = response])
         ELSE /\ pc' = "sleeping"
              /\ log' = [log EXCEPT !.sleeps = @ + 1,
                                    !.lastResponse = response]
              /\ UNCHANGED << config, file, idx, quote, result, attempts,
                              events, faults, summary, exitCode >>

\* the timer of statusPollingInterval fires
SleepDone ==
  /\ pc = "sleeping"
  /\ PollLoop(result, log, attempts)

(***************************************************************************)
(* Initial states: every configuration and every history file.             *)
(***************************************************************************)
OldRecord ==
  [operation |-> safeOperation(BRIDGE_OPERATIONS[1]),
   result |-> safeResult(BRIDGE_OPERATIONS[1],
                         FailedResult("Quote did not meet thresholds"),
                         QuoteFor(BRIDGE_OPERATIONS[1], 994, 60))]

\* the histories an earlier run left behind
OldHistories == { << >>, << OldRecord >> }

InitialFiles ==
  { MissingFile, GarbageFile, NonListFile }
  \cup { ListFile(h) : h \in OldHistories }

\* the README's example of an operation the user adds; its token is in
\* TOKENS only if the user also adds it there
NewTokenOperation ==
  [name |-> "NEWTOKEN Ethereum to Arbitrum", tokenSymbol |-> "NEWTOKEN",
   originChainId |-> 1, destinationChainId |-> 42161,
   inputAmount |-> [m |-> 10, e |-> 0], decimals |-> 18,
   useNativeToken |-> FALSE]

\* the entries a configured list is made of: the entry config.js enables
\* and the README's example
OperationPool == << BRIDGE_OPERATIONS[1], NewTokenOperation >>

WithEnabled(op, flag) ==
  [name |-> op.name, enabled |-> flag, tokenSymbol |-> op.tokenSymbol,
   originChainId |-> op.originChainId,
   destinationChainId |-> op.destinationChainId,
   inputAmount |-> op.inputAmount, decimals |-> op.decimals,
   useNativeToken |-> op.useNativeToken]

\* the operation lists a user configures: entries of the pool in any order,
\* each enabled or not
Configurations ==
  LET n == MaxOperations
  IN  { [i \in 1..n |-> WithEnabled(OperationPool[pick[i]], flags[i])] :
          pick \in [1..n -> 1..Len(OperationPool)],
          flags \in [1..n -> BOOLEAN] }

Init ==
  /\ operations \in Configurations
  /\ autoExecute \in BOOLEAN
  /\ saveHistory \in BOOLEAN
  /\ privateKey \in BOOLEAN
  /\ file \in InitialFiles
  /\ file0 = file
  /\ pc = "start"
  /\ idx = 0
  /\ quote = NoQuote
  /\ result = InitialResult
  /\ attempts = 0
  /\ events = 0
  /\ faults = 0
  /\ log = InitialLog
  /\ summary = [i \in 1..Len(operations) |-> InitialSummary]
  /\ exitCode = -1
  /\ evaluation = NoEvaluation
  /\ lookup = NoLookup
  /\ fold = NoFold

\* the pending request of the poller settles
PollResponds == \E response \in PollResponses : PollResponse(response)

\* every step of the run but the return of a quote
RunStep ==
  \/ Startup
  \/ BeginOperation
  \/ Finish
  \/ QuoteThrows
  \/ \E progress \in ProgressEvents : Progress(progress)
  \/ ExecuteReturns
  \/ ExecuteThrows
  \/ PollResponds
  \/ SleepDone

Next ==
  \/ RunStep
  \/ pc = "quoting" /\ \E q \in Quotes(operation) : QuoteReturns(q)

Spec == Init /\ [][Next]_vars

\* The run of the README's example configuration: one operation, ETH from
\* Arbitrum to Optimism without a decimals field, auto-execute and history
\* saving on, and an SDK that quotes 99.5 % of the input in 45 seconds.
ScenarioOperation ==
  [name |-> "ETH Arbitrum to Optimism", tokenSymbol |-> "ETH",
   originChainId |-> 42161, destinationChainId |-> 10,
   inputAmount |-> [m |-> 1, e |-> -3], decimals |-> 0,
   useNativeToken |-> TRUE]

ScenarioQuote == QuoteFor(ScenarioOperation, 995, 45)

\* the same quote with the SDK's mark that the amount is under the
\* protocol's minimum deposit
ScenarioQuoteTooLow == [ScenarioQuote EXCEPT !.isAmountTooLow = TRUE]

ScenarioInit ==
  /\ operations = << WithEnabled(ScenarioOperation, TRUE) >>
  /\ autoExecute = TRUE
  /\ saveHistory = TRUE
  /\ privateKey = TRUE
  /\ file \in { MissingFile } \cup { ListFile(h) : h \in OldHistories }
  /\ file0 = file
  /\ pc = "start"
  /\ idx = 0
  /\ quote = NoQuote
  /\ result = InitialResult
  /\ attempts = 0
  /\ events = 0
  /\ faults = 0
  /\ log = InitialLog
  /\ summary = [i \in 1..Len(operations) |-> InitialSummary]
  /\ exitCode = -1
  /\ evaluation = NoEvaluation
  /\ lookup = NoLookup
  /\ fold = NoFold

ScenarioNext ==
  \/ RunStep
  \/ QuoteReturns(ScenarioQuote)
  \/ QuoteReturns(ScenarioQuoteTooLow)

ScenarioSpec == ScenarioInit /\ [][ScenarioNext]_vars

\* The threshold evaluator on its own: one quote and one operation judged
\* under two values of THRESHOLDS.minOutputPercentage.
\* the operation of the README's example output: 0.1 ETH from chain 42161
\* to chain 10
ExampleOperation ==
  [ScenarioOperation EXCEPT !.inputAmount = [m |-> 1, e |-> -1],
                            !.decimals = 18]

EvaluatedOperations ==
  { BRIDGE_OPERATIONS[i] : i \in DOMAIN BRIDGE_OPERATIONS }
  \cup { NewTokenOperation, ScenarioOperation, ExampleOperation }

\* values of THRESHOLDS.maxFillTimeSeconds: the configured one and a
\* stricter one
FillTimeLimits == {30, THRESHOLDS.maxFillTimeSeconds}

\* minOutputPercentage as a fraction: 0, 0.99, 0.994, 0.995 (twice), 0.996,
\* 1 and 1.001
Minimums ==
  { [num |-> 0, den |-> 1], [num |-> 990, den |-> 1000],
    [num |-> 994, den |-> 1000], [num |-> 995, den |-> 1000],
    [num |-> 199, den |-> 200], [num |-> 996, den |-> 1000],
    [num |-> 1, den |-> 1], [num |-> 1001, den |-> 1000] }

ThresholdsWith(minimum) ==
  [THRESHOLDS EXCEPT !.minOutputNum = minimum.num,
                     !.minOutputDen = minimum.den]

ThresholdsOf(minimum, maxFill) ==
  [ThresholdsWith(minimum) EXCEPT !.maxFillTimeSeconds = maxFill]

EvaluatedQuotes(op) ==
  { QuoteFor(op, permille, fillTime) :
      permille \in {0, 990, 994, 995, 996, 1000, 1001},
      fillTime \in {30, 31, 45, 59, 60, 61} }

\* the script is not run: the functions are called on their own
NoRun ==
  /\ operations = << >>
  /\ autoExecute = FALSE
  /\ saveHistory = FALSE
  /\ privateKey = FALSE
  /\ file = MissingFile
  /\ file0 = file
  /\ pc = "start"
  /\ idx = 0
  /\ quote = NoQuote
  /\ result = InitialResult
  /\ attempts = 0
  /\ events = 0
  /\ faults = 0
  /\ log = InitialLog
  /\ summary = << >>
  /\ exitCode = -1

run == << operations, autoExecute, saveHistory, privateKey, file, file0, pc,
          idx, quote, result, attempts, events, faults, log, summary,
          exitCode >>

EvaluatorInit ==
  /\ NoRun
  /\ lookup = NoLookup
  /\ fold = NoFold
  /\ \E op \in EvaluatedOperations, low \in Minimums, high \in Minimums,
        maxFill \in FillTimeLimits :
       \E q \in EvaluatedQuotes(op) :
         evaluation = [made |-> FALSE, quote |-> q, operation |-> op,
                       low |-> low, high |-> high, maxFill |-> maxFill]

\* quoteExceedsThresholds(quote, operation) under each of the two minimums
Evaluate ==
  /\ ~evaluation.made
  /\ evaluation' =
       [made |-> TRUE, quote |-> evaluation.quote,
        operation |-> evaluation.operation,
        low |-> evaluation.low, high |-> evaluation.high,
        maxFill |-> evaluation.maxFill,
        underLow |-> quoteExceedsThresholdsWith(evaluation.quote,
                        evaluation.operation,
                        ThresholdsOf(evaluation.low, evaluation.maxFill)),
        underHigh |-> quoteExceedsThresholdsWith(evaluation.quote,
                        evaluation.operation,
                        ThresholdsOf(evaluation.high, evaluation.maxFill))]
  /\ UNCHANGED << run, lookup, fold >>

EvaluatorSpec == EvaluatorInit /\ [][Evaluate]_vars

(***************************************************************************)
(* The helpers of helper.js, called with each symbol, chain and flag over  *)
(* the registry config.js ships and over one a user has extended           *)
(***************************************************************************)

\* TOKENS after the user has added NEWTOKEN as the README describes, with
\* bridged versions on one chain that has a plain entry and one that has none
UserTokens ==
  [ETH |-> TOKENS.ETH, USDC |-> TOKENS.USDC, USDT |-> TOKENS.USDT,
   WBTC |-> TOKENS.WBTC,
   NEWTOKEN |->
     ( <<1, Plain>> :> "0xNEWTOKEN-1"
    @@ <<10, Plain>> :> "0xNEWTOKEN-10"
    @@ <<10, Bridged>> :> "0xNEWTOKEN-10-bridged"
    @@ <<42161, Plain>> :> "0xNEWTOKEN-42161"
    @@ <<137, Bridged>> :> "0xNEWTOKEN-137-bridged" )]

Registries == {TOKENS, UserTokens}

\* symbols the helpers are called with; DAI has decimals but no addresses
LookupSymbols == {"ETH", "USDC", "USDT", "NEWTOKEN", "DAI"}

\* chain ids the helpers are called with; 5 is not a key of CHAINS
LookupChains == {1, 10, 137, 8453, 42161, 5}

HelperInit ==
  /\ NoRun
  /\ evaluation = NoEvaluation
  /\ fold = NoFold
  /\ \E tokens \in Registries, tokenSymbol \in LookupSymbols,
        originChainId \in LookupChains, destinationChainId \in LookupChains,
        useBridged \in BOOLEAN, useNativeToken \in BOOLEAN :
       lookup = [made |-> FALSE, tokens |-> tokens,
                 tokenSymbol |-> tokenSymbol,
                 chainId |-> originChainId,
                 destinationChainId |-> destinationChainId,
                 useBridged |-> useBridged,
                 useNativeToken |-> useNativeToken]

\* the lookup after a helper has returned or thrown
Answer(name, outcome) ==
  [made |-> TRUE, call |-> name, result |-> outcome,
   tokens |-> lookup.tokens,
   tokenSymbol |-> lookup.tokenSymbol,
   chainId |-> lookup.chainId,
   destinationChainId |-> lookup.destinationChainId,
   useBridged |-> lookup.useBridged,
   useNativeToken |-> lookup.useNativeToken]

CallGetTokenAddress ==
  /\ ~lookup.made
  /\ lookup' = Answer("getTokenAddress",
                 getTokenAddressIn(lookup.tokens, lookup.tokenSymbol,
                                   lookup.chainId, lookup.useBridged))
  /\ UNCHANGED << run, evaluation, fold >>

CallGetSupportedTokensForChain ==
  /\ ~lookup.made
  /\ lookup' = Answer("getSupportedTokensForChain",
                 getSupportedTokensForChainIn(lookup.tokens, lookup.chainId))
  /\ UNCHANGED << run, evaluation, fold >>

CallIsBridgeSupportedForToken ==
  /\ ~lookup.made
  /\ lookup' = Answer("isBridgeSupportedForToken",
                 isBridgeSupportedForTokenIn(lookup.tokens, lookup.chainId,
                                             lookup.destinationChainId,
                                             lookup.tokenSymbol))
  /\ UNCHANGED << run, evaluation, fold >>

CallFindAvailableRoutes ==
  /\ ~lookup.made
  /\ lookup' = Answer("findAvailableRoutes",
                 findAvailableRoutesIn(lookup.tokens, lookup.tokenSymbol))
  /\ UNCHANGED << run, evaluation, fold >>

CallCreateRouteObject ==
  /\ ~lookup.made
  /\ lookup' = Answer("createRouteObject",
                 createRouteObjectIn(lookup.tokens, lookup.tokenSymbol,
                                     lookup.chainId, lookup.destinationChainId,
                                     lookup.useNativeToken))
  /\ UNCHANGED << run, evaluation, fold >>

HelperNext ==
  \/ CallGetTokenAddress
  \/ CallGetSupportedTokensForChain
  \/ CallIsBridgeSupportedForToken
  \/ CallFindAvailableRoutes
  \/ CallCreateRouteObject

HelperSpec == HelperInit /\ [][HelperNext]_vars

(***************************************************************************)
(* The callback of executeQuote, called with every sequence of progress    *)
(* events of up to MaxFoldEvents events                                    *)
(***************************************************************************)

RECURSIVE EventSequences(_)
EventSequences(n) ==
  IF n = 0 THEN { << >> }
  ELSE LET shorter == EventSequences(n - 1)
       IN  shorter \cup { Append(s, e) : s \in { t \in shorter : Len(t) = n - 1 },
                                         e \in ProgressEvents }

\* executeQuote has declared result and the SDK has called nothing yet
DriverInit ==
  /\ NoRun
  /\ evaluation = NoEvaluation
  /\ lookup = NoLookup
  /\ \E progress \in EventSequences(MaxFoldEvents) :
       fold = [at |-> 0, events |-> progress, result |-> InitialResult,
               before |-> InitialResult]

\* the SDK calls onProgress with the next event
CallOnProgress ==
  /\ fold.at < Len(fold.events)
  /\ fold' = [at |-> fold.at + 1, events |-> fold.events,
              result |-> onProgress(fold.result, fold.events[fold.at + 1]),
              before |-> fold.result]
  /\ UNCHANGED << run, evaluation, lookup >>

DriverSpec == DriverInit /\ [][CallOnProgress]_vars

\* Runs that reach the poller, under the scheduling of the event loop: a
\* pending request settles (with a body or an error) and a timer fires.
PollerInit == Init /\ privateKey /\ autoExecute /\ ~saveHistory

PollerSpec ==
  PollerInit /\ [][Next]_vars /\ WF_vars(PollResponds) /\ WF_vars(SleepDone)

(***************************************************************************)
(* Properties.                                                             *)
(***************************************************************************)
Running == {"quoting", "executing", "polling", "sleeping"}
OperationReturned == log.ret # "none"

\* the operation's input amount in smallest units
InputInSmallestUnits(op) ==
  [m |-> op.inputAmount.m, e |-> op.inputAmount.e + op.decimals]

\* output / input >= minOutputPercentage and fill time <= maxFillTimeSeconds
MeetsThresholds(q, op) ==
  LET out == q.deposit.outputAmount
      inp == InputInSmallestUnits(op)
      k == Min(out.e, inp.e)
  IN  /\ out.m * Pow10(out.e - k) * THRESHOLDS.minOutputDen
           >= THRESHOLDS.minOutputNum * inp.m * Pow10(inp.e - k)
      /\ q.estimatedFillTimeSec <= THRESHOLDS.maxFillTimeSeconds

\* C1: the execute call and the status requests of an operation happen only
\* after a quote that meets both thresholds, and only with autoExecute on;
\* an operation whose quote was rejected or missing has neither.
C1Theorem ==
  /\ (log.executes > 0 \/ log.polls > 0) =>
       /\ log.quoted.present
       /\ MeetsThresholds(log.quoted, operations[log.op])
       /\ autoExecute
  /\ pc \in {"executing", "polling", "sleeping"} => log.executes = 1
  /\ \A i \in DOMAIN summary :
       (summary[i].executes > 0 \/ summary[i].polled) =>
         autoExecute /\ summary[i].quotes = 1

C1Witness ==
  /\ OperationReturned
  /\ log.executes = 1
  /\ log.polls > 0
  /\ log.quoted = QuoteFor(operations[log.op], 995, 60)

\* C2: the evaluator accepts a quote exactly when output / input is at least
\* minOutputPercentage and the fill time is at most maxFillTimeSeconds, both
\* inclusive, the input being the operation's amount in smallest units.
C2Theorem ==
  log.accepted # "none" =>
    (log.accepted = "yes" <=> MeetsThresholds(log.quoted, operations[log.op]))

C2Witness ==
  /\ log.accepted = "yes"
  /\ log.quoted.estimatedFillTimeSec = THRESHOLDS.maxFillTimeSeconds
  /\ log.quoted.deposit.outputAmount
       = [m |-> 995, e |-> 12]

\* C3: whenever the deposit step reported txSuccess and the result is not
\* successful when the execute call returns, the status endpoint is polled
\* with the operation's origin chain and the reported deposit id, whatever
\* that id is, and the result becomes successful exactly when polling
\* returns true.
C3Claim ==
  (OperationReturned /\ log.execEnd = "returned" /\ log.capturedAny
     /\ ~log.execSuccess) =>
    /\ log.polls > 0
    /\ log.pollChain = operations[log.op].originChainId
    /\ log.pollDeposit = log.captured
    /\ log.finalSuccess <=> log.pollRet = "true"

\* a history file that can be read and written and holds a list or is absent
UsableFile ==
  saveHistory /\ file0.kind \in {"missing", "list"} /\ faults = 0

Attempted == { i \in DOMAIN summary : summary[i].ret # "none" }

\* C4: with history saving on and a usable history file, every attempted
\* operation has added exactly one record, whatever its outcome.
C4Theorem ==
  UsableFile =>
    /\ \A i \in DOMAIN summary :
         summary[i].records = IF i \in Attempted THEN 1 ELSE 0
    /\ Len(file.records) = Len(file0.records) + Cardinality(Attempted)

C4Witness ==
  /\ UsableFile
  /\ pc = "done"
  /\ summary[1].ret = "true"
  /\ summary[2].ret = "false"
  /\ Len(file.records) = Len(file0.records) + 2

\* C5: whatever step of an operation fails, the failure ends at the
\* operation boundary as a failed result and every later enabled operation
\* is still started, so a run ends with every enabled operation attempted.
C5Claim ==
  (privateKey /\ pc \in {"done", "exited"}) =>
    \A i \in DOMAIN operations :
      operations[i].enabled => summary[i].ret \in {"true", "false"}

\* C6: the recorder never raises, whatever the history file holds, and the
\* value the operation returns is the success flag of the result that was
\* handed to the recorder.
C6Claim ==
  log.saves > 0 =>
    /\ ~log.saveThrew
    /\ OperationReturned => log.ret = BoolText(log.finalSuccess)

\* C7: the history is append-only: whatever a step does to the file, the
\* records that were in it are still there, unchanged and in order.
C7Claim ==
  [][file.kind = "list" =>
       /\ file'.kind = "list"
       /\ Len(file'.records) >= Len(file.records)
       /\ SubSeq(file'.records, 1, Len(file.records)) = file.records]_vars

\* the statuses of the terminal sets, in any letter case
TerminalSuccess ==
  {"filled", "Filled", "FILLED", "success", "Success", "SUCCESS",
   "fill", "Fill", "FILL"}
TerminalFailure == {"failed", "Failed", "FAILED"}

\* C8: a status of the success set makes the poller return true and a
\* status "failed" makes it return false, in any letter case, at once: no
\* sleep and no request follows; every other status leads to a sleep.
C8Theorem ==
  log.lastResponse.kind = "ok" =>
    IF log.lastResponse.status \in TerminalSuccess
    THEN log.pollRet = "true" /\ log.sleeps = log.polls - 1
         /\ pc \notin Running
    ELSE IF log.lastResponse.status \in TerminalFailure
    THEN log.pollRet = "false" /\ log.sleeps = log.polls - 1
         /\ pc \notin Running
    ELSE /\ log.sleeps = log.polls
         /\ \/ pc = "sleeping" /\ log.pollRet = "none"
            \/ /\ pc \notin Running
               /\ log.pollRet = "false"
               /\ log.polls = MONITORING.maxPollingAttempts

C8Witness ==
  /\ log.lastResponse = OkResponse("FILL")
  /\ log.pollRet = "true"
  /\ log.polls = 2

PollerBounded ==
  /\ log.polls <= MONITORING.maxPollingAttempts
  /\ log.sleeps <= log.polls
  /\ pc \in {"polling", "sleeping"} => attempts = log.polls
  /\ (OperationReturned /\ log.polls > 0) => log.pollRet \in {"true", "false"}
  /\ log.lastResponse.kind \in {"requestFailed", "noStatusField"} =>
       /\ log.sleeps = log.polls
       /\ \/ pc = "sleeping" /\ log.pollRet = "none"
          \/ /\ log.pollRet = "false"
             /\ log.polls = MONITORING.maxPollingAttempts
  /\ (OperationReturned /\ log.sleeps = MONITORING.maxPollingAttempts) =>
       log.pollRet = "false"

Polling == pc \in {"polling", "sleeping"}

\* C9: the poller always comes to an end and returns a boolean: it issues
\* at most maxPollingAttempts requests; a failed request consumes one
\* attempt and is followed by a sleep like an in-progress status; when the
\* budget is used up without a terminal status the poller returns false.
C9Theorem == []PollerBounded /\ (Polling ~> ~Polling)

C9Witness ==
  /\ OperationReturned
  /\ log.lastResponse = ErrorResponse("requestFailed")
  /\ log.polls = MONITORING.maxPollingAttempts
  /\ log.pollRet = "false"

\* C10: k - 1 in-progress responses followed by a terminal success make the
\* poller return true after exactly k requests; maxPollingAttempts
\* in-progress responses make it return false after exactly that many.
C10Theorem ==
  /\ log.pollRet = "true" =>
       /\ log.polls = log.sleeps + 1
       /\ log.polls <= MONITORING.maxPollingAttempts
  /\ (log.pollRet = "false" /\ log.sleeps = log.polls) =>
       log.polls = MONITORING.maxPollingAttempts

C10Witness ==
  /\ log.pollRet = "true"
  /\ log.polls = 3
  /\ log.sleeps = 2
  /\ log.lastResponse = OkResponse("filled")

\* C11: when the execute call of the SDK raises, before or after progress
\* events, executeQuote returns a result with success false and the message
\* of the exception as its error; the catch block of executeBridgeOperation
\* never sees that exception.
C11Theorem ==
  log.execEnd = "threw" =>
    /\ log.execError = ExecuteError
    /\ log.caught # ExecuteError
    /\ log.polls = 0
    /\ OperationReturned =>
         /\ ~log.finalSuccess
         /\ log.saves >= 1
         /\ ~log.saveThrew => (log.caught = NULL /\ log.ret = "false")
         /\ (UsableFile /\ log.records = 1) =>
              LET last == file.records[Len(file.records)].result
              IN  ~last.success /\ last.error = ExecuteError

C11Witness ==
  /\ OperationReturned
  /\ log.execEnd = "threw"
  /\ log.capturedAny
  /\ UsableFile
  /\ file.records[Len(file.records)].result.error = ExecuteError

\* number of records in the history file when the run starts
InitialLength == IF file0.kind = "list" THEN Len(file0.records) ELSE 0

EnabledPositions == { i \in DOMAIN operations : operations[i].enabled }

\* C12: an operation whose enabled flag is false is never quoted, executed,
\* polled or written to the history, wherever it stands in the list.
C12Theorem ==
  /\ \A i \in DOMAIN operations :
       ~operations[i].enabled => summary[i] = InitialSummary
  /\ log.op # 0 => operations[log.op].enabled
  /\ pc \in Running => operations[cur].enabled
  /\ file.kind = "list" =>
       Len(file.records) <= InitialLength + Cardinality(EnabledPositions)

C12Witness ==
  /\ pc = "done"
  /\ ~operations[1].enabled
  /\ operations[2].enabled
  /\ summary[1] = InitialSummary
  /\ summary[2].ret = "true"
  /\ file.kind = "list"
  /\ Len(file.records) = InitialLength + 1

Started(i) == summary[i] # InitialSummary
Finished(i) == summary[i].ret # "none"

\* C13: operations run one at a time in the order of the configured list: at
\* most one operation is between its start and its end, and an operation
\* starts only when every enabled operation before it has ended, polling
\* and history write included.
C13Theorem ==
  /\ Cardinality({ i \in DOMAIN operations : Started(i) /\ ~Finished(i) }) <= 1
  /\ \A i, j \in DOMAIN operations :
       (i < j /\ operations[i].enabled /\ Started(j)) => Finished(i)
  /\ pc \in Running => (log.op = cur /\ Started(cur) /\ ~Finished(cur))

C13Witness ==
  /\ pc = "polling"
  /\ cur = 2
  /\ Finished(1)
  /\ summary[1].polled
  /\ summary[1].records = 1

\* C14: without the private key the process ends with a nonzero status
\* before any operation is attempted: nothing is quoted, executed, polled
\* or written to the history.
C14Theorem ==
  ~privateKey =>
    /\ pc \in {"start", "exited"}
    /\ exitCode = IF pc = "exited" THEN 1 ELSE -1
    /\ log = InitialLog
    /\ \A i \in DOMAIN operations : summary[i] = InitialSummary
    /\ file = file0
    /\ quote = NoQuote

C14Witness ==
  /\ ~privateKey
  /\ pc = "exited"
  /\ exitCode = 1
  /\ operations[1].enabled
  /\ summary[1] = InitialSummary

\* C15: with the private key present the run ends with exit status 0 after
\* every enabled operation has been processed, whatever failed in them,
\* history I/O included.
C15Claim ==
  (privateKey /\ exitCode # -1) =>
    /\ exitCode = 0
    /\ \A i \in EnabledPositions : Finished(i)

\* the result part of the newest record of the history file
LastResult == file.records[Len(file.records)].result

C18Theorem ==
  (OperationReturned /\ ~log.quoted.present) =>
    /\ log.caught \in {QuoteError, NotSupportedError}
    /\ log.accepted = "none"
    /\ log.executes = 0 /\ log.polls = 0
    /\ ~log.saveThrew =>
         /\ log.saves = 1 /\ log.ret = "false"
         /\ exitCode # 1
         /\ pc = "loop" => idx = 1 + Cardinality({ i \in EnabledPositions :
                                                    i <= log.op })
    /\ UsableFile =>
         /\ log.records = 1
         /\ ~LastResult.success
         /\ LastResult.error = log.caught
         /\ LastResult.outputAmount = NoAmount
         /\ LastResult.relayFee = NoAmount
         /\ LastResult.lpFee = NoAmount

C18Witness ==
  /\ pc = "quoting"
  /\ cur = 2
  /\ summary[1].ret = "false"
  /\ summary[1].quotes = 1
  /\ UsableFile
  /\ Len(file.records) = InitialLength + 1
  /\ LastResult.error = QuoteError
  /\ LastResult.outputAmount = NoAmount

\* the path of the example: deposit captured, no fill reported by the
\* execution, status "filled" from the endpoint
ScenarioRun ==
  /\ OperationReturned
  /\ log.quoted = ScenarioQuote
  /\ log.execEnd = "returned"
  /\ TruthyDeposit(log.captured)
  /\ ~log.execSuccess
  /\ log.lastResponse = OkResponse("filled")

\* C19: the README's operation (ETH, 42161 to 10, 0.001, native) with a
\* quote of 0.000995 ETH in 45 s under the thresholds 0.995 and 60 s, an
\* execution that captures a nonzero deposit id and reports no fill, and a
\* status endpoint answering "filled": the quote is accepted, executed and
\* polled, and the history record has success true and an origin
\* transaction hash.
C19Theorem ==
  /\ log.quoted.present =>
       /\ log.quoted \in {ScenarioQuote, ScenarioQuoteTooLow}
       /\ formatUnits(log.quoted.deposit.outputAmount, 18) = [m |-> 995, e |-> -6]
       /\ log.accepted = "yes"
  /\ ScenarioRun =>
       /\ log.executes = 1
       /\ log.polls >= 1
       /\ log.pollChain = 42161
       /\ log.pollDeposit = log.captured
       /\ log.pollRet = "true"
       /\ log.finalSuccess
       /\ log.ret = "true"
       /\ log.saves = 1
       /\ UsableFile =>
            /\ Len(file.records) = InitialLength + 1
            /\ LastResult.success
            /\ LastResult.originTxHash = OriginTxHash
            /\ LastResult.originTxHash # NULL
            /\ LastResult.depositId = log.captured

C19Witness ==
  /\ ScenarioRun
  /\ log.polls = 1
  /\ UsableFile
  /\ Len(file.records) = InitialLength + 1
  /\ LastResult.success
  /\ LastResult.originTxHash = OriginTxHash
  /\ pc = "loop"

\* C20: the evaluator is monotonic in minOutputPercentage: for a fixed
\* quote and operation and minimums m1 <= m2, acceptance under m2 implies
\* acceptance under m1; raising the minimum never turns a reject into an
\* accept.
C20Theorem ==
  (evaluation.made
     /\ evaluation.low.num * evaluation.high.den
          <= evaluation.high.num * evaluation.low.den) =>
    (evaluation.underHigh => evaluation.underLow)

C20Witness ==
  /\ evaluation.made
  /\ evaluation.low = [num |-> 994, den |-> 1000]
  /\ evaluation.high = [num |-> 996, den |-> 1000]
  /\ evaluation.underLow
  /\ ~evaluation.underHigh

\* the call of the example: input 0.1 with 18 decimals, output
\* 0.0995 * 10^18, fill time 45 s, minOutputPercentage 0.995
ExampleCall ==
  /\ evaluation.made
  /\ evaluation.operation.inputAmount = [m |-> 1, e |-> -1]
  /\ DecimalsOf(evaluation.operation) = 18
  /\ evaluation.quote.deposit.outputAmount = [m |-> 995, e |-> 14]
  /\ evaluation.quote.estimatedFillTimeSec = 45
  /\ evaluation.low = [num |-> 995, den |-> 1000]

\* C21: for input 0.1 (18 decimals) and a quote of 0.0995 * 10^18 in 45 s the
\* evaluator returns true under {0.995, 60 s} and false under {0.995, 30 s},
\* where the output ratio still passes and only the fill time fails.
C21Theorem ==
  ExampleCall =>
    /\ evaluation.maxFill = 60 => evaluation.underLow
    /\ evaluation.maxFill = 30 =>
         /\ ~evaluation.underLow
         /\ RatioAtLeast(evaluation.quote.deposit.outputAmount,
                         parseUnits(evaluation.operation.inputAmount, 18),
                         995, 1000)
         /\ quoteExceedsThresholdsWith(evaluation.quote, evaluation.operation,
                                       ThresholdsOf(evaluation.low, 45))

C21Witness ==
  /\ ExampleCall
  /\ evaluation.operation = ExampleOperation
  /\ evaluation.maxFill = 30
  /\ ~evaluation.underLow

\* a helper has been called and has returned or thrown
HelperCalled(name) == lookup.made /\ lookup.call = name

HasEntry(tokens, tokenSymbol, key) ==
  tokenSymbol \in DOMAIN tokens /\ key \in DOMAIN tokens[tokenSymbol]

\* C22: getTokenAddress(symbol, chainId) returns the configured address of
\* every pair present in the registry and throws the not-supported error for
\* every absent pair; it succeeds for every symbol that
\* getSupportedTokensForChain lists for the chain.
C22Theorem ==
  /\ HelperCalled("getTokenAddress") /\ ~lookup.useBridged =>
       IF HasEntry(lookup.tokens, lookup.tokenSymbol, <<lookup.chainId, Plain>>)
       THEN lookup.result =
              Returned(lookup.tokens[lookup.tokenSymbol][<<lookup.chainId, Plain>>])
       ELSE lookup.result = Threw(NotSupportedError)
  /\ HelperCalled("getSupportedTokensForChain") =>
       \A tokenSymbol \in lookup.result :
         LET address == getTokenAddressIn(lookup.tokens, tokenSymbol,
                                          lookup.chainId, FALSE)
         IN  /\ ~address.threw
             /\ address.value = lookup.tokens[tokenSymbol][<<lookup.chainId, Plain>>]

C22Witness ==
  /\ HelperCalled("getTokenAddress")
  /\ ~lookup.useBridged
  /\ lookup.tokens = TOKENS
  /\ lookup.tokenSymbol = "USDT"
  /\ lookup.chainId = 137
  /\ lookup.result = Returned("0xc2132D05D31c914a87C6611C10748AEb04B58e8F")

\* C23: with useBridged = true getTokenAddress returns the "<chainId>-bridged"
\* address whenever the symbol has that entry, and otherwise the plain entry;
\* with useBridged = false it never returns a bridged address.
C23Claim ==
  HelperCalled("getTokenAddress") =>
    /\ ( lookup.useBridged
         /\ HasEntry(lookup.tokens, lookup.tokenSymbol, <<lookup.chainId, Bridged>>) )
       => lookup.result =
            Returned(lookup.tokens[lookup.tokenSymbol][<<lookup.chainId, Bridged>>])
    /\ ( lookup.useBridged
         /\ ~HasEntry(lookup.tokens, lookup.tokenSymbol, <<lookup.chainId, Bridged>>)
         /\ HasEntry(lookup.tokens, lookup.tokenSymbol, <<lookup.chainId, Plain>>) )
       => lookup.result =
            Returned(lookup.tokens[lookup.tokenSymbol][<<lookup.chainId, Plain>>])
    /\ ( ~lookup.useBridged /\ ~lookup.result.threw )
       => lookup.result.value \notin
            { lookup.tokens[lookup.tokenSymbol][key] :
                key \in { k \in DOMAIN lookup.tokens[lookup.tokenSymbol] :
                            k[2] = Bridged } }

\* the registry's plain address of the looked-up symbol on a chain
PlainAddress(chainId) == lookup.tokens[lookup.tokenSymbol][<<chainId, Plain>>]

\* C24: createRouteObject returns the plain addresses of the symbol on the
\* origin and the destination chain, sets isNative exactly when the symbol is
\* ETH and useNativeToken is true, throws the not-supported error when either
\* chain lacks the token, and succeeds for every entry of BRIDGE_OPERATIONS.
C24Theorem ==
  HelperCalled("createRouteObject") =>
    /\ IF /\ HasEntry(lookup.tokens, lookup.tokenSymbol, <<lookup.chainId, Plain>>)
          /\ HasEntry(lookup.tokens, lookup.tokenSymbol,
                      <<lookup.destinationChainId, Plain>>)
       THEN /\ ~lookup.result.threw
            /\ lookup.result.value.originChainId = lookup.chainId
            /\ lookup.result.value.destinationChainId = lookup.destinationChainId
            /\ lookup.result.value.inputToken = PlainAddress(lookup.chainId)
            /\ lookup.result.value.outputToken =
                 PlainAddress(lookup.destinationChainId)
            /\ lookup.result.value.isNative
                 = (lookup.tokenSymbol = "ETH" /\ lookup.useNativeToken)
       ELSE lookup.result = Threw(NotSupportedError)
    /\ ( /\ lookup.tokens = TOKENS
         /\ \E i \in 1..Len(BRIDGE_OPERATIONS) :
              /\ BRIDGE_OPERATIONS[i].tokenSymbol = lookup.tokenSymbol
              /\ BRIDGE_OPERATIONS[i].originChainId = lookup.chainId
              /\ BRIDGE_OPERATIONS[i].destinationChainId = lookup.destinationChainId )
       => ~lookup.result.threw

C24Witness ==
  /\ HelperCalled("createRouteObject")
  /\ lookup.tokens = TOKENS
  /\ lookup.tokenSymbol = "ETH"
  /\ lookup.chainId = 8453
  /\ lookup.destinationChainId = 1
  /\ ~lookup.useNativeToken
  /\ ~lookup.result.threw
  /\ ~lookup.result.value.isNative

\* the chains on which the looked-up symbol has a plain entry
PlainChains ==
  IF lookup.tokenSymbol \in DOMAIN lookup.tokens
  THEN { key[1] : key \in { k \in DOMAIN lookup.tokens[lookup.tokenSymbol] :
                              k[2] = Plain } }
  ELSE {}

\* C25: findAvailableRoutes returns exactly the pairs of distinct chains that
\* both have a plain entry for the symbol, each once, never a chain that has
\* only a bridged entry; every route it returns satisfies
\* isBridgeSupportedForToken, and an unknown symbol yields the empty list.
C25Theorem ==
  HelperCalled("findAvailableRoutes") =>
    /\ { << lookup.result[i].originChainId, lookup.result[i].destinationChainId >> :
           i \in 1..Len(lookup.result) }
         = { pair \in PlainChains \X PlainChains : pair[1] # pair[2] }
    /\ Len(lookup.result) = Cardinality(PlainChains) * (Cardinality(PlainChains) - 1)
    /\ \A i \in 1..Len(lookup.result) :
         /\ lookup.result[i].tokenSymbol = lookup.tokenSymbol
         /\ isBridgeSupportedForTokenIn(lookup.tokens,
                                        lookup.result[i].originChainId,
                                        lookup.result[i].destinationChainId,
                                        lookup.tokenSymbol)
    /\ lookup.tokenSymbol \notin DOMAIN lookup.tokens => lookup.result = << >>

C25Witness ==
  /\ HelperCalled("findAvailableRoutes")
  /\ lookup.tokens = UserTokens
  /\ lookup.tokenSymbol = "NEWTOKEN"
  /\ Len(lookup.result) = 6

\* C26: when the quote returned for an operation marks the amount as too
\* low, the script detects it and the transfer is not executed.
C26Claim ==
  (log.quoted.present /\ log.quoted.isAmountTooLow) => log.executes = 0

\* C27: the route sent to the SDK for the configured operation named
\* "ETH Arbitrum to Optimism" has originChainId 42161 and destinationChainId
\* 10, as the README documents.
C27Claim ==
  ( /\ log.quotes >= 1
    /\ operations[log.op].name = "ETH Arbitrum to Optimism"
    /\ operations[log.op] = WithEnabled(BRIDGE_OPERATIONS[1], TRUE) )
  => /\ log.route.originChainId = 42161
     /\ log.route.destinationChainId = 10

\* the event the callback has just been called with
FoldedEvent == fold.events[fold.at]

IsSuccess(step) ==
  fold.at > 0 /\ FoldedEvent.step = step /\ FoldedEvent.status = "txSuccess"

\* C28: the result starts as {success false, depositId null, originTxHash
\* null, destinationTxHash null, error null}; a deposit txSuccess event sets
\* depositId and originTxHash to the event's values; a fill txSuccess event
\* sets success to true and sets destinationTxHash when the event carries a
\* receipt.
C28Theorem ==
  /\ fold.at = 0 =>
       fold.result = [success |-> FALSE, depositId |-> NoDeposit,
                      originTxHash |-> NULL, destinationTxHash |-> NULL,
                      error |-> NULL]
  /\ IsSuccess("deposit") =>
       /\ fold.result.depositId = FoldedEvent.depositId
       /\ fold.result.originTxHash = FoldedEvent.txHash
  /\ IsSuccess("fill") =>
       /\ fold.result.success
       /\ FoldedEvent.txHash # NULL =>
            fold.result.destinationTxHash = FoldedEvent.txHash
       /\ FoldedEvent.txHash = NULL =>
            fold.result.destinationTxHash = fold.before.destinationTxHash

C28Witness ==
  /\ fold.at = 2
  /\ fold.events[1].step = "deposit"
  /\ IsSuccess("fill")
  /\ fold.result = [success |-> TRUE, depositId |-> 7,
                    originTxHash |-> OriginTxHash,
                    destinationTxHash |-> FillTxHash, error |-> NULL]

\* C29: every approve event and every pending event leaves the result as it
\* was; a deposit txSuccess event leaves success and destinationTxHash
\* unchanged, and a fill txSuccess event leaves depositId and originTxHash
\* unchanged.
C29Theorem ==
  fold.at > 0 =>
    /\ (FoldedEvent.step = "approve" \/ FoldedEvent.status = "pending")
         => fold.result = fold.before
    /\ IsSuccess("deposit") =>
         /\ fold.result.success = fold.before.success
         /\ fold.result.destinationTxHash = fold.before.destinationTxHash
         /\ fold.result.error = fold.before.error
    /\ IsSuccess("fill") =>
         /\ fold.result.depositId = fold.before.depositId
         /\ fold.result.originTxHash = fold.before.originTxHash
         /\ fold.result.error = fold.before.error

C29Witness ==
  /\ fold.at = 3
  /\ fold.events[1].step = "deposit" /\ fold.events[1].status = "txSuccess"
  /\ fold.events[2].step = "fill" /\ fold.events[2].status = "txSuccess"
  /\ IsSuccess("approve")
  /\ fold.result = fold.before
  /\ fold.result.success
  /\ fold.result.depositId = 7

\* C30: when polling does not confirm success (status "failed" or the
\* attempt budget used up) the result is left as executeQuote returned it:
\* success stays false, depositId, originTxHash and destinationTxHash are
\* unchanged and no error is added; that result is what is recorded.
C30Theorem ==
  /\ Polling =>
       /\ result = log.atPoll
       /\ ~result.success
       /\ TruthyDeposit(result.depositId)
       /\ result.error = NULL
  /\ (OperationReturned /\ log.pollRet = "false") =>
       /\ ~log.finalSuccess
       /\ log.atPoll.depositId = log.captured
       /\ (UsableFile /\ ~log.saveThrew) =>
            /\ log.ret = "false"
            /\ LastResult = safeResult(operations[log.op], log.atPoll, log.quoted)
            /\ ~LastResult.success
            /\ LastResult.error = NULL

C30Witness ==
  /\ OperationReturned
  /\ log.pollRet = "false"
  /\ log.polls = MONITORING.maxPollingAttempts
  /\ log.sleeps = log.polls
  /\ UsableFile
  /\ LastResult.depositId = 7
  /\ LastResult.originTxHash = OriginTxHash
  /\ ~LastResult.success

\* C31: once the deposit step has reported txSuccess, the history record of
\* the operation carries that deposit id and that origin transaction hash,
\* whether the execute call then returns or raises, whatever the id.
C31Claim ==
  (OperationReturned /\ log.capturedAny /\ UsableFile /\ ~log.saveThrew) =>
    /\ LastResult.depositId = log.captured
    /\ LastResult.originTxHash = OriginTxHash

\* the lower-case statuses on which pollDepositStatus returns true
SuccessStatuses == {"filled", "success", "fill"}

\* the reasons for which an operation's result may be successful
SuccessJustified ==
  /\ log.quoted.present
  /\ log.accepted = "yes"
  /\ log.executes = 1
  /\ log.execEnd = "returned"
  /\ \/ log.execSuccess
     \/ /\ log.pollRet = "true"
        /\ log.lastResponse.kind = "ok"
        /\ toLowerCase(log.lastResponse.status) \in SuccessStatuses

\* C32: a history record has success true only if the quote was accepted,
\* execution was started, and either a fill txSuccess event was delivered
\* during execution or the poller returned true on a terminal-success
\* status; polling never turns a successful result into a failure.
C32Theorem ==
  /\ (OperationReturned /\ log.finalSuccess) => SuccessJustified
  /\ (OperationReturned /\ log.records = 1 /\ file.kind = "list"
        /\ LastResult.success) => SuccessJustified
  /\ Polling => ~result.success
  /\ (OperationReturned /\ log.execEnd = "returned" /\ log.execSuccess) =>
       /\ log.polls = 0
       /\ log.finalSuccess

C32Witness ==
  /\ OperationReturned
  /\ UsableFile
  /\ LastResult.success
  /\ ~log.execSuccess
  /\ log.pollRet = "true"
  /\ log.lastResponse = OkResponse("FILL")

\* the steps of the current operation other than the history record, in
\* their order: a threshold evaluation needs the quote, an execution needs
\* an accepted quote, a status request needs a returned execution
StepsInOrder ==
  /\ log.quotes <= 1
  /\ log.executes <= 1
  /\ log.accepted # "none" => (log.quotes = 1 /\ log.quoted.present)
  /\ log.executes > 0 => log.accepted = "yes"
  /\ pc = "executing" => (log.execEnd = "none" /\ log.polls = 0)
  /\ log.polls > 0 => (log.executes = 1 /\ log.execEnd = "returned")
  /\ log.polls <= MONITORING.maxPollingAttempts

\* the recorder is called when the other steps are over
RecordIsLast ==
  /\ pc \in Running => (log.saves = 0 /\ log.records = 0)
  /\ log.saves > 0 => OperationReturned
  /\ log.records <= 1

\* C33: within one operation the steps happen in the order quote, threshold
\* evaluation, execution, polling, history record, each at most once; the
\* history record is the last of them, so no quote, execute or status
\* request of an operation follows its record.
C33Claim ==
  /\ StepsInOrder
  /\ RecordIsLast
  /\ log.saves <= 1

TypeOK ==
  /\ pc \in {"start", "loop"} \cup Running \cup {"done", "exited"}
  /\ exitCode \in {-1, 0, 1}
  /\ attempts \in 0..MONITORING.maxPollingAttempts

====
